---- MODULE Spec2Model ----
(***************************************************************************)
(* The session controller of packages/solid/src/use-chat.ts (useChat):     *)
(* the shared message cache, the controllers bound to it, the requests in  *)
(* flight and the auto-continuation loop of triggerRequest.                *)
(*                                                                         *)
(* One action is one synchronous run of a handler or of a continuation of  *)
(* an async function between two suspension points.  The streaming layer   *)
(* (callChatApi) is not part of use-chat.ts; it is modelled from its       *)
(* contract: it calls onUpdate with the assistant message it is building,  *)
(* calls restoreMessagesOnFailure on a failure and ends a cancelled        *)
(* request with the aborted outcome.                                       *)
(***************************************************************************)
EXTENDS Integers, Sequences, FiniteSets, TLC

\* ------------------------------------------------------------------ bounds
\* requests issued by all controllers together
MaxReq == 2
\* calls of the operations of the controllers
MaxOps == 2
\* the largest value of the option maxSteps
MaxStepsBound == 2
\* tool calls one response adds to its message
MaxTools == 1
\* text tokens one response adds to its message
MaxTokens == 1
\* out-of-band data items one response delivers
MaxData == 1

\* ------------------------------------------------------------- value space
Controllers == {1, 2}
SessionIds == {1, 2}

\* the value of extractMaxToolInvocationStep for a message without invocations
NoStep == -1
\* abortController = null
NoHandle == 0

\* a message; content is the number of text tokens (0 is the empty string),
\* toolInvocations = <<>> is the absent field
Msg(id, role, content, tools) ==
  [id |-> id, role |-> role, content |-> content, toolInvocations |-> tools]

\* the initial messages of the first controller: a user message and an
\* assistant message with one tool call that has no result yet
U0 == Msg(1, "user", 1, <<>>)
A0 == Msg(2, "assistant", 0, <<[toolCallId |-> 3, state |-> "call", step |-> 0]>>)

Last(s) == s[Len(s)]
Front(s) == SubSeq(s, 1, Len(s) - 1)

\* ids made by generateId: distinct for every (controller, request, slot)
NewId(c, n, slot) == 100 * c + 10 * n + slot

VARIABLES
  chatId,           \* option id of each controller
  initialMessages,  \* option initialMessages of each controller
  maxSteps,         \* option maxSteps
  keepLastMessageOnError, \* option keepLastMessageOnError
  chatCache,        \* the shared cache: key -> entry
  messagesRef,      \* each controller's local mirror
  error,            \* each controller's error signal
  isLoading,        \* each controller's loading signal
  streamData,       \* each controller's out-of-band data signal
  abortController,  \* each controller's cancellation handle (a request number)
  reqs,             \* the runs of triggerRequest that are suspended in callChatApi
  issued,           \* the number of requests each controller has started
  ops,              \* the number of operations called so far
  limit,            \* the operations and the requests a run may use
  ev,               \* the handler that ran last, and what it returned
  scen              \* history: only one append, tool-call responses and tool results so far

vars == <<chatId, initialMessages, maxSteps, keepLastMessageOnError, chatCache, messagesRef, error, isLoading,
          streamData, abortController, reqs, issued, ops, limit, ev, scen>>

config == <<chatId, initialMessages, maxSteps, keepLastMessageOnError, limit>>

\* --------------------------------------------------------- pure functions
Max(a, b) == IF a >= b THEN a ELSE b

RECURSIVE MaxStepOf(_)
MaxStepOf(tools) ==
  IF tools = <<>> THEN 0 ELSE Max(Last(tools).step, MaxStepOf(Front(tools)))

\* extractMaxToolInvocationStep: undefined for an absent list
ExtractMaxToolInvocationStep(tools) ==
  IF tools = <<>> THEN NoStep ELSE MaxStepOf(tools)

\* x ?? 0
OrZero(x) == IF x = NoStep THEN 0 ELSE x

IsAssistantMessageWithCompletedToolCalls(message) ==
  /\ message.role = "assistant"
  /\ Len(message.toolInvocations) > 0
  /\ \A i \in 1..Len(message.toolInvocations) :
       message.toolInvocations[i].state = "result"

\* ------------------------------------------------------------ the cache
NoEntry == [has |-> FALSE, msgs |-> <<>>]

ChatKeyPerController(c) == c

\* the key of controller c: its endpoint (the same for all) and its session id
ChatKey(c) == chatId[c]

\* chatCache.get(key): the entry, or absent
CacheGet(cacheX, k) == cacheX[k]

\* chatCache.set(key, messages)
CacheSet(cacheX, k, msgs) == [cacheX EXCEPT ![k] = [has |-> TRUE, msgs |-> msgs]]

\* the memo _messages of controller c over a cache
Messages(cacheX, c) ==
  IF CacheGet(cacheX, ChatKey(c)).has
    THEN CacheGet(cacheX, ChatKey(c)).msgs
    ELSE initialMessages[c]

\* mutate of controller c
Mutate(cacheX, c, msgs) == CacheSet(cacheX, ChatKey(c), msgs)

SyncMessagesRefNever(cacheX, refX, k) == refX

\* the effect that copies _messages into messagesRef: it runs, for every
\* controller observing key k, when the entry of k is set
SyncMessagesRef(cacheX, refX, k) ==
  [c \in Controllers |-> IF ChatKey(c) = k THEN Messages(cacheX, c) ELSE refX[c]]

\* ----------------------------------------------------- the streaming layer
\* the state callChatApi keeps for one response: the message it is building,
\* whether that message replaces the last one of the request, the step its
\* tool calls get, and the data items received
StreamInit(chatMsgs, c, n) ==
  LET replace == Len(chatMsgs) > 0 /\ Last(chatMsgs).role = "assistant" IN
  [ replaceLastMessage |-> replace,
    step |-> IF replace
               THEN 1 + OrZero(ExtractMaxToolInvocationStep(Last(chatMsgs).toolInvocations))
               ELSE 0,
    message |-> IF replace THEN Last(chatMsgs)
                ELSE Msg(NewId(c, n, 1), "assistant", 0, <<>>),
    tokens |-> 0,
    calls |-> 0,
    data |-> <<>> ]

MessageParts == {"text", "tool_call", "tool_result"}

PartKinds == MessageParts \cup {"data"}

HasCall(message) ==
  \E i \in 1..Len(message.toolInvocations) : message.toolInvocations[i].state = "call"

\* the first invocation still in state call gets its result
ResolveFirstCall(tools) ==
  LET i == CHOOSE j \in 1..Len(tools) :
             /\ tools[j].state = "call"
             /\ \A h \in 1..(j - 1) : tools[h].state # "call"
  IN [tools EXCEPT ![i].state = "result"]

PartEnabled(r, kind) ==
  CASE kind = "text" -> r.stream.tokens < MaxTokens
    [] kind = "tool_call" -> r.stream.calls < MaxTools
    [] kind = "tool_result" -> HasCall(r.stream.message)
    [] kind = "data" -> Len(r.stream.data) < MaxData

\* the stream state after one part of the response
StreamNext(r, kind) ==
  LET st == r.stream
      m == st.message
  IN
  CASE kind = "text" ->
         [st EXCEPT !.message = [m EXCEPT !.content = m.content + 1],
                    !.tokens = st.tokens + 1]
    [] kind = "tool_call" ->
         [st EXCEPT !.message =
                      [m EXCEPT !.toolInvocations =
                         Append(m.toolInvocations,
                                [toolCallId |-> NewId(r.c, r.n, 2 + st.calls),
                                 state |-> "call", step |-> st.step])],
                    !.calls = st.calls + 1]
    [] kind = "tool_result" ->
         [st EXCEPT !.message =
                      [m EXCEPT !.toolInvocations = ResolveFirstCall(m.toolInvocations)]]
    [] kind = "data" ->
         [st EXCEPT !.data = Append(st.data, NewId(r.c, r.n, 9))]

\* ------------------------------------------------------- processStreamedResponse
Undefined == [def |-> FALSE, items |-> <<>>]
Defined(items) == [def |-> TRUE, items |-> items]

\* const previousMessages = messagesRef
PreviousMessages(refX, c) == refX[c]

\* const existingStreamData = streamData() ?? []
ExistingStreamData(c) == streamData[c].items

\* restoreMessagesOnFailure of request r, applied to a cache
RestoreMessagesAlways(cacheX, r) == Mutate(cacheX, r.c, r.previousMessages)

RestoreMessagesOnFailure(cacheX, r) ==
  IF ~r.keepLastMessageOnError
    THEN Mutate(cacheX, r.c, r.previousMessages)
    ELSE cacheX

\* the list onUpdate of request r publishes for a message
OnUpdateMessages(r, message, replaceLastMessage) ==
  (IF replaceLastMessage THEN Front(r.messages) ELSE r.messages) \o <<message>>

\* the out-of-band data after onUpdate of request r
OnUpdateStreamData(r, data) ==
  IF Len(data) > 0
    THEN Defined(r.existingStreamData \o data)
    ELSE streamData[r.c]

\* ------------------------------------------------------------ triggerRequest
TotalIssued == issued[1] + issued[2]

InFlight(c) == {r \in reqs : r.c = c}

\* the synchronous part of triggerRequest and processStreamedResponse, up to
\* the call of callChatApi: the values it leaves behind
TriggerRequest(c, chatMsgs, origin, auto, cacheX, refX, reqsX) ==
  LET n == issued[c] + 1
      last == IF Len(chatMsgs) > 0 THEN Last(chatMsgs).toolInvocations ELSE <<>>
      cache2 == Mutate(cacheX, c, chatMsgs)
      r == [ c |-> c, n |-> n, origin |-> origin, auto |-> auto,
             messages |-> chatMsgs,
             messageCount |-> Len(refX[c]),
             maxStep |-> ExtractMaxToolInvocationStep(last),
             previousMessages |-> PreviousMessages(refX, c),
             existingStreamData |-> ExistingStreamData(c),
             keepLastMessageOnError |-> keepLastMessageOnError,
             aborted |-> FALSE,
             stream |-> StreamInit(chatMsgs, c, n),
             \* history: the list observed before the request, the list it published last
             before |-> Messages(cacheX, c),
             published |-> chatMsgs ]
  IN [ n |-> n,
       chatCache |-> cache2,
       messagesRef |-> SyncMessagesRef(cache2, refX, ChatKey(c)),
       reqs |-> reqsX \cup {r} ]

\* the signals and the handle once triggerRequest has started request t.n
Started(c, t) ==
  /\ chatCache' = t.chatCache
  /\ messagesRef' = t.messagesRef
  /\ reqs' = t.reqs
  /\ error' = [error EXCEPT ![c] = "none"]
  /\ isLoading' = [isLoading EXCEPT ![c] = TRUE]
  /\ abortController' = [abortController EXCEPT ![c] = t.n]
  /\ issued' = [issued EXCEPT ![c] = t.n]

\* the condition of the auto-continuation, on the list read from messagesRef
ShouldContinueUnbounded(messages, messageCount, maxStep) ==
  /\ Len(messages) > 0
  /\ \/ Len(messages) > messageCount
     \/ ExtractMaxToolInvocationStep(Last(messages).toolInvocations) # maxStep
  /\ maxSteps > 1
  /\ IsAssistantMessageWithCompletedToolCalls(Last(messages))
  /\ Last(messages).content = 0

ShouldContinueWithContent(messages, messageCount, maxStep) ==
  /\ Len(messages) > 0
  /\ \/ Len(messages) > messageCount
     \/ ExtractMaxToolInvocationStep(Last(messages).toolInvocations) # maxStep
  /\ maxSteps > 1
  /\ IsAssistantMessageWithCompletedToolCalls(Last(messages))
  /\ OrZero(ExtractMaxToolInvocationStep(Last(messages).toolInvocations)) < maxSteps

ShouldContinue(messages, messageCount, maxStep) ==
  /\ Len(messages) > 0
  /\ \/ Len(messages) > messageCount
     \/ ExtractMaxToolInvocationStep(Last(messages).toolInvocations) # maxStep
  /\ maxSteps > 1
  /\ IsAssistantMessageWithCompletedToolCalls(Last(messages))
  /\ Last(messages).content = 0
  /\ OrZero(ExtractMaxToolInvocationStep(Last(messages).toolInvocations)) < maxSteps

\* the error signal after the catch block; setError is skipped by the abort
\* branch's return and by an exception of onError
ErrorAfterCatchSetsAbort(c, errName, onErrorThrows) ==
  IF errName = "none" \/ onErrorThrows THEN error[c] ELSE "Error"

ErrorAfterCatch(c, errName, onErrorThrows) ==
  IF errName = "Error" /\ ~onErrorThrows THEN "Error" ELSE error[c]

\* the loading signal after the finally block
LoadingAfterFinallySkippedByReturn(c, errName) ==
  IF errName = "AbortError" THEN isLoading[c] ELSE FALSE

LoadingAfterFinally(c, errName) == FALSE

\* the handle after the run of a request ended
HandleAfterRun(c, errName) ==
  IF errName \in {"none", "AbortError"} THEN NoHandle ELSE abortController[c]

\* what the promise of triggerRequest settles to
Settled(errName, onErrorThrows) ==
  CASE errName = "AbortError" -> "null"
    [] errName = "Error" /\ onErrorThrows -> "rejected"
    [] OTHER -> "undefined"

\* one more call of an operation
Called == ops < limit.ops /\ ops' = ops + 1

\* the last handler: its name, its controller, the request it started or ended,
\* what it returned, and its argument (a list for setMessages, a toolCallId)
Ev(op, c, n, res, list) ==
  [op |-> op, c |-> c, n |-> n, res |-> res, list |-> list,
   toolCallId |-> NewId(0, 0, 0), origin |-> "none"]

\* ---------------------------------------------------------------- history
\* the response of r is an assistant message with empty content and one
\* tool call that has no result
ToolCallResponse(r) ==
  /\ r.stream.calls = 1
  /\ r.stream.tokens = 0
  /\ Last(r.stream.message.toolInvocations).state = "call"

\* ------------------------------------------------------------------ Init
\* the state after construction, for a budget and the initial messages of the
\* first controller
InitWith(budget, first) ==
  /\ limit = budget
  /\ chatId = [c \in Controllers |-> 1]
  /\ initialMessages = [c \in Controllers |-> IF c = 1 THEN first ELSE <<>>]
  /\ maxSteps \in 1..MaxStepsBound
  /\ keepLastMessageOnError \in BOOLEAN
  /\ chatCache = [k \in SessionIds |-> NoEntry]
  /\ messagesRef = initialMessages
  /\ error = [c \in Controllers |-> "none"]
  /\ isLoading = [c \in Controllers |-> FALSE]
  /\ streamData = [c \in Controllers |-> Undefined]
  /\ abortController = [c \in Controllers |-> NoHandle]
  /\ reqs = {}
  /\ issued = [c \in Controllers |-> 0]
  /\ ev = Ev("init", 0, 0, "none", <<>>)
  /\ ops = 0
  /\ scen = TRUE

Init == InitWith([ops |-> MaxOps, reqs |-> MaxReq], <<U0, A0>>)

\* --------------------------------------------------------------- requests
\* callChatApi delivers one part of the response of r and calls onUpdate
OnUpdate(r, kind) ==
  /\ r \in reqs
  /\ ~r.aborted
  /\ PartEnabled(r, kind)
  /\ LET st == StreamNext(r, kind)
         list == OnUpdateMessages(r, st.message, st.replaceLastMessage)
         cache2 == Mutate(chatCache, r.c, list)
     IN /\ chatCache' = cache2
        /\ messagesRef' = SyncMessagesRef(cache2, messagesRef, ChatKey(r.c))
        /\ streamData' = [streamData EXCEPT ![r.c] = OnUpdateStreamData(r, st.data)]
        /\ reqs' = (reqs \ {r}) \cup {[r EXCEPT !.stream = st, !.published = list]}
  /\ ev' = Ev("onUpdate", r.c, r.n, "pending", <<>>)
  /\ scen' = (scen /\ kind = "tool_call")
  /\ UNCHANGED <<config, error, isLoading, abortController, issued>>
  /\ UNCHANGED ops

\* the run of triggerRequest for r resumes after callChatApi ended with
\* errName ("none": it returned), and runs to its end or to the next callChatApi
Settle(r, errName, onErrorThrows) ==
  LET c == r.c
      failed == errName = "Error"
      cache1 == IF failed THEN RestoreMessagesOnFailure(chatCache, r) ELSE chatCache
      ref1 == IF failed /\ ~r.keepLastMessageOnError
                THEN SyncMessagesRef(cache1, messagesRef, ChatKey(c))
                ELSE messagesRef
      returns == errName = "AbortError" \/ (failed /\ onErrorThrows)
      continue == ~returns /\ ShouldContinue(ref1[c], r.messageCount, r.maxStep)
      t == TriggerRequest(c, ref1[c], r.origin, TRUE, cache1, ref1, reqs \ {r})
  IN
  /\ r \in reqs
  /\ (errName = "AbortError") <=> r.aborted
  /\ IF continue
       THEN /\ TotalIssued < limit.reqs
            /\ Started(c, t)
       ELSE /\ chatCache' = cache1
            /\ messagesRef' = ref1
            /\ reqs' = reqs \ {r}
            /\ error' = [error EXCEPT ![c] = ErrorAfterCatch(c, errName, onErrorThrows)]
            /\ isLoading' = [isLoading EXCEPT ![c] = LoadingAfterFinally(c, errName)]
            /\ abortController' =
                 [abortController EXCEPT ![c] = HandleAfterRun(c, errName)]
            /\ UNCHANGED issued
  /\ ev' = [Ev(CASE errName = "none" -> "success"
                 [] errName = "Error" -> "failure"
                 [] OTHER -> "aborted",
               c, r.n,
               IF continue THEN "continued" ELSE Settled(errName, onErrorThrows),
               <<>>)
             EXCEPT !.origin = r.origin]
  /\ scen' = (scen /\ errName = "none" /\ ToolCallResponse(r))
  /\ UNCHANGED <<config, streamData>>
  /\ UNCHANGED ops

Success(r) == Settle(r, "none", FALSE)

Failure(r, onErrorThrows) == Settle(r, "Error", onErrorThrows)

Aborted(r) == Settle(r, "AbortError", FALSE)

\* -------------------------------------------------------------- operations
\* append, from the point where prepareAttachmentsForRequest has resolved
AppendMessage(c) ==
  LET newMessage == Msg(NewId(c, issued[c] + 1, 0), "user", 1, <<>>)
      t == TriggerRequest(c, messagesRef[c] \o <<newMessage>>, "append", FALSE,
                          chatCache, messagesRef, reqs)
  IN
  /\ TotalIssued < limit.reqs
  /\ Started(c, t)
  /\ ev' = Ev("append", c, t.n, "pending", <<>>)
  /\ scen' = (scen /\ TotalIssued = 0)
  /\ UNCHANGED <<config, streamData>>
  /\ Called

\* the list reload sends
ReloadMessagesDropsLast(messages) == Front(messages)

ReloadMessages(messages) ==
  IF Last(messages).role = "assistant" THEN Front(messages) ELSE messages

Reload(c) ==
  /\ IF Len(messagesRef[c]) = 0
       THEN /\ ev' = Ev("reload", c, 0, "null", <<>>)
            /\ UNCHANGED <<chatCache, messagesRef, reqs, error, isLoading,
                           abortController, issued>>
       ELSE LET t == TriggerRequest(c, ReloadMessages(messagesRef[c]), "reload", FALSE,
                                    chatCache, messagesRef, reqs)
            IN /\ TotalIssued < limit.reqs
               /\ Started(c, t)
               /\ ev' = Ev("reload", c, t.n, "pending", <<>>)
  /\ scen' = FALSE
  /\ UNCHANGED <<config, streamData>>
  /\ Called

\* the handle after stop: null, whether it held a controller or not
HandleAfterStopKept(c) == abortController[c]

HandleAfterStop(c) == NoHandle

Stop(c) ==
  /\ IF abortController[c] # NoHandle
       THEN /\ reqs' = {IF r.c = c /\ r.n = abortController[c]
                          THEN [r EXCEPT !.aborted = TRUE] ELSE r : r \in reqs}
            /\ abortController' = [abortController EXCEPT ![c] = HandleAfterStop(c)]
       ELSE UNCHANGED <<reqs, abortController>>
  /\ ev' = Ev("stop", c, abortController[c], "returned", <<>>)
  /\ scen' = FALSE
  /\ UNCHANGED <<config, chatCache, messagesRef, error, isLoading, streamData, issued>>
  /\ Called

\* the arguments of setMessages: the empty list, and the updater that drops the
\* last message of the list it is given
SetMessagesArgs(c) ==
  {<<>>} \cup (IF Len(messagesRef[c]) > 0 THEN {Front(messagesRef[c])} ELSE {})

SetMessages(c, messagesArg) ==
  LET cache2 == Mutate(chatCache, c, messagesArg) IN
  /\ chatCache' = cache2
  /\ messagesRef' =
       [SyncMessagesRef(cache2, messagesRef, ChatKey(c)) EXCEPT ![c] = messagesArg]
  /\ ev' = Ev("setMessages", c, 0, "returned", messagesArg)
  /\ scen' = FALSE
  /\ UNCHANGED <<config, error, isLoading, streamData, abortController, reqs, issued>>
  /\ Called

SetData(c, dataArg) ==
  /\ streamData' = [streamData EXCEPT ![c] = dataArg]
  /\ ev' = Ev("setData", c, 0, "returned", <<>>)
  /\ UNCHANGED <<config, chatCache, messagesRef, error, isLoading, abortController,
                 reqs, issued, scen>>
  /\ Called

\* the list addToolResult writes
AddToolResultEveryMessage(messagesSnapshot, toolCallId) ==
  [index \in 1..Len(messagesSnapshot) |->
     LET message == messagesSnapshot[index] IN
     IF message.role = "assistant" /\ message.toolInvocations # <<>>
       THEN [message EXCEPT !.toolInvocations =
               [i \in 1..Len(message.toolInvocations) |->
                  IF message.toolInvocations[i].toolCallId = toolCallId
                    THEN [message.toolInvocations[i] EXCEPT !.state = "result"]
                    ELSE message.toolInvocations[i]]]
       ELSE message]

AddToolResultMessages(messagesSnapshot, toolCallId) ==
  [index \in 1..Len(messagesSnapshot) |->
     LET message == messagesSnapshot[index] IN
     IF /\ index = Len(messagesSnapshot)
        /\ message.role = "assistant"
        /\ message.toolInvocations # <<>>
       THEN [message EXCEPT !.toolInvocations =
               [i \in 1..Len(message.toolInvocations) |->
                  IF message.toolInvocations[i].toolCallId = toolCallId
                    THEN [message.toolInvocations[i] EXCEPT !.state = "result"]
                    ELSE message.toolInvocations[i]]]
       ELSE message]

\* the toolCallIds of a list, and one that names no invocation
UnknownToolCallId == NewId(0, 0, 0)

ToolCallIds(messages) ==
  UNION {{messages[i].toolInvocations[j].toolCallId :
            j \in 1..Len(messages[i].toolInvocations)} : i \in 1..Len(messages)}

AddToolResult(c, toolCallId) ==
  LET messagesSnapshot == Messages(chatCache, c)
      updatedMessages == AddToolResultMessages(messagesSnapshot, toolCallId)
      cache2 == Mutate(chatCache, c, updatedMessages)
      ref2 == SyncMessagesRef(cache2, messagesRef, ChatKey(c))
      t == TriggerRequest(c, updatedMessages, "addToolResult", FALSE,
                          cache2, ref2, reqs)
  IN
  /\ CASE Len(updatedMessages) = 0 ->
            \* lastMessage is undefined: reading its role throws a TypeError
            /\ chatCache' = cache2
            /\ messagesRef' = ref2
            /\ ev' = [Ev("addToolResult", c, 0, "threw", <<>>) EXCEPT !.toolCallId = toolCallId]
            /\ UNCHANGED <<reqs, error, isLoading, abortController, issued>>
       [] Len(updatedMessages) > 0
          /\ IsAssistantMessageWithCompletedToolCalls(Last(updatedMessages)) ->
            /\ TotalIssued < limit.reqs
            /\ Started(c, t)
            /\ ev' = [Ev("addToolResult", c, t.n, "returned", <<>>) EXCEPT !.toolCallId = toolCallId]
       [] OTHER ->
            /\ chatCache' = cache2
            /\ messagesRef' = ref2
            /\ ev' = [Ev("addToolResult", c, 0, "returned", <<>>) EXCEPT !.toolCallId = toolCallId]
            /\ UNCHANGED <<reqs, error, isLoading, abortController, issued>>
  /\ scen' = /\ scen
             /\ InFlight(c) = {}
             /\ Len(messagesSnapshot) > 0
             /\ \E i \in 1..Len(Last(messagesSnapshot).toolInvocations) :
                  /\ Last(messagesSnapshot).toolInvocations[i].toolCallId = toolCallId
                  /\ Last(messagesSnapshot).toolInvocations[i].state = "call"
  /\ UNCHANGED <<config, streamData>>
  /\ Called

\* ------------------------------------------------------------------ Next
\* the operations a user of controller c may call
Operation(c) ==
  \/ AppendMessage(c)
  \/ Reload(c)
  \/ Stop(c)
  \/ \E messagesArg \in SetMessagesArgs(c) : SetMessages(c, messagesArg)
  \/ SetData(c, Undefined)
  \/ \E toolCallId \in ToolCallIds(Messages(chatCache, c)) \cup {UnknownToolCallId} :
       AddToolResult(c, toolCallId)

\* the ways a request in flight ends
Completion(r) ==
  \/ Success(r)
  \/ \E onErrorThrows \in BOOLEAN : Failure(r, onErrorThrows)
  \/ Aborted(r)

\* two controllers on one session; the responses carry no out-of-band data
Next ==
  \/ \E c \in Controllers : Operation(c)
  \/ \E r \in reqs, kind \in MessageParts : OnUpdate(r, kind)
  \/ \E r \in reqs : Completion(r)

Spec == Init /\ [][Next]_vars

\* one controller; the responses carry out-of-band data as well
NextData ==
  \/ Operation(1)
  \/ \E r \in reqs, kind \in PartKinds : OnUpdate(r, kind)
  \/ \E r \in reqs : Completion(r)

SpecData == Init /\ [][NextData]_vars

\* one controller and one more operation: a third call can meet two requests
\* in flight
InitStop == InitWith([ops |-> MaxOps + 1, reqs |-> MaxReq], <<U0, A0>>)

NextStop ==
  \/ Operation(1)
  \/ \E r \in reqs, kind \in MessageParts : OnUpdate(r, kind)
  \/ \E r \in reqs : Completion(r)

SpecStop == InitStop /\ [][NextStop]_vars

\* one controller and one call that starts a request, on a list that is empty,
\* ends with an open tool call or ends with a completed one; the transport
\* settles every request (no stop, so no abort); the budget of requests is one
\* more than the longest chain
A0Result == [A0 EXCEPT !.toolInvocations = ResolveFirstCall(A0.toolInvocations)]

InitChain ==
  \E first \in {<<>>, <<U0, A0>>, <<U0, A0Result>>} :
    InitWith([ops |-> 1, reqs |-> MaxStepsBound + 2], first)

Settles(r) == Success(r) \/ \E onErrorThrows \in BOOLEAN : Failure(r, onErrorThrows)

NextChain ==
  \/ AppendMessage(1)
  \/ Reload(1)
  \/ \E toolCallId \in ToolCallIds(Messages(chatCache, 1)) \cup {UnknownToolCallId} :
       AddToolResult(1, toolCallId)
  \/ \E r \in reqs, kind \in MessageParts : OnUpdate(r, kind)
  \/ \E r \in reqs : Settles(r)

SpecChain ==
  InitChain /\ [][NextChain]_vars /\ WF_vars(\E r \in reqs : Settles(r))

\* ================================================================ claims
Observed(c) == Messages(chatCache, c)

\* the request of controller c with number n, among those in flight
Request(c, n) == CHOOSE r \in reqs : r.c = c /\ r.n = n

\* message id holds an invocation toolCallId in the given state
Holds(messages, id, toolCallId, state) ==
  \E i \in 1..Len(messages) :
    /\ messages[i].id = id
    /\ \E j \in 1..Len(messages[i].toolInvocations) :
         /\ messages[i].toolInvocations[j].toolCallId = toolCallId
         /\ messages[i].toolInvocations[j].state = state

\* C1: with maxSteps = N, after one append, when every response is an assistant
\* message with empty content and one unresolved tool call and addToolResult
\* resolves that call each round, the controller issues at most N requests.
C1_RequestsBoundedByMaxSteps ==
  scen => \A c \in Controllers : issued[c] <= maxSteps

\* C2: when a request started by append fails (not by abort), the list after the
\* failure is, without keepLastMessageOnError, exactly the list observed before
\* the request was triggered, and with it the list as last published: the
\* failure changes nothing, so what the request published last is kept.
C2_RollbackOrKeep ==
  [][ev'.op = "failure" /\ ev'.origin = "append" =>
       LET r == Request(ev'.c, ev'.n) IN
       IF ~r.keepLastMessageOnError
         THEN Messages(chatCache', r.c) = r.before
         ELSE /\ Messages(chatCache', r.c) = Observed(r.c)
              /\ Observed(r.c) = r.published =>
                   Messages(chatCache', r.c) = r.published]_vars

\* C2 happens: a request of append failed after it had published the appended
\* message, and the list is the one from before the append again
C2_Witness ==
  /\ ev.op = "failure" /\ ev.origin = "append"
  /\ ~keepLastMessageOnError
  /\ ops = 1
  /\ chatCache[ChatKey(1)].has
  /\ Observed(1) = <<U0, A0>>

\* C3: a request that ends with the aborted outcome leaves the error field as it
\* is (unset stays unset), sets isLoading to false and leaves the message list
\* as last published, for either value of keepLastMessageOnError.
C3_AbortKeepsState ==
  [][ev'.op = "aborted" =>
       /\ error'[ev'.c] = error[ev'.c]
       /\ isLoading'[ev'.c] = FALSE
       /\ Messages(chatCache', ev'.c) = Observed(ev'.c)]_vars

\* C3 happens: an aborted request ended, without keepLastMessageOnError, and
\* the token it had streamed is still in the list
C3_Witness ==
  /\ ev.op = "aborted"
  /\ ~keepLastMessageOnError
  /\ error[ev.c] = "none"
  /\ ~isLoading[ev.c]
  /\ Len(Observed(ev.c)) > 0
  /\ Last(Observed(ev.c)).role = "assistant"
  /\ Last(Observed(ev.c)).content > 0

\* C4: after setMessages(L) by a controller, every controller constructed with
\* the same endpoint and session id observes L, whatever the initial messages were.
C4_CacheSharing ==
  [][ev'.op = "setMessages" =>
       \A c \in Controllers :
         chatId[c] = chatId[ev'.c] => Messages(chatCache', c) = ev'.list]_vars

\* C4 happens: the second controller called setMessages first, and the first
\* controller, whose initial messages differ, observes the list it set
C4_Witness ==
  /\ ev.op = "setMessages" /\ ev.c = 2
  /\ ops = 1
  /\ initialMessages[1] # ev.list
  /\ Observed(1) = ev.list

\* C5: a tool invocation of a message of the list that is in state result is
\* never in state call in a later list.
C5_NoRegression ==
  [][\A c \in Controllers : \A i \in 1..Len(Observed(c)) :
       \A j \in 1..Len(Observed(c)[i].toolInvocations) :
         LET message == Observed(c)[i]
             toolCallId == message.toolInvocations[j].toolCallId
         IN Holds(Observed(c), message.id, toolCallId, "result") =>
              ~Holds(Messages(chatCache', c), message.id, toolCallId, "call")]_vars

\* C6: addToolResult leaves every message but the last one as it is, and leaves
\* the whole list as it is when the toolCallId occurs only in an earlier message.
C6_OnlyLastMessage ==
  [][ev'.op = "addToolResult" =>
       LET before == Observed(ev'.c)
           after == Messages(chatCache', ev'.c)
       IN /\ Len(after) = Len(before)
          /\ \A i \in 1..(Len(before) - 1) : after[i] = before[i]
          /\ ( /\ Len(before) > 0
               /\ ev'.toolCallId \in ToolCallIds(Front(before))
               /\ ev'.toolCallId \notin ToolCallIds(<<Last(before)>>) )
             => after = before]_vars

\* C6 happens: addToolResult was called with the toolCallId of an invocation of
\* an earlier message, which has no result still
C6_Witness ==
  /\ ev.op = "addToolResult"
  /\ Len(Observed(ev.c)) > 1
  /\ ev.toolCallId \in ToolCallIds(Front(Observed(ev.c)))
  /\ ev.toolCallId \notin ToolCallIds(<<Last(Observed(ev.c))>>)
  /\ \E i \in 1..(Len(Observed(ev.c)) - 1) :
       Holds(Observed(ev.c), Observed(ev.c)[i].id, ev.toolCallId, "call")

\* C7: reload on an empty list starts no request and returns null; on a list
\* that ends with an assistant message it starts one request with the list
\* without that message; otherwise one request with the list unchanged.
C7_Reload ==
  [][ev'.op = "reload" =>
       LET c == ev'.c
           list == Observed(c)
       IN IF Len(list) = 0
            THEN ev'.res = "null" /\ reqs' = reqs /\ issued' = issued
            ELSE /\ Cardinality(reqs' \ reqs) = 1
                 /\ issued'[c] = issued[c] + 1
                 /\ \A r \in reqs' \ reqs :
                      /\ r.c = c
                      /\ r.messages = IF Last(list).role = "assistant"
                                        THEN Front(list) ELSE list]_vars

\* C7 happens: reload ran on a list that ends with a user message and sent it
\* unchanged
C7_Witness ==
  /\ ev.op = "reload"
  /\ \E r \in reqs :
       /\ r.c = ev.c /\ r.n = ev.n
       /\ r.origin = "reload"
       /\ Len(r.messages) > 0
       /\ Last(r.messages).role = "user"
       /\ r.messages = r.before

\* C8: a run of triggerRequest that ends sets isLoading to false on every exit
\* path, also when onError throws; so isLoading is false whenever no request of
\* the controller is in flight.
C8_LoadingCleared ==
  [][/\ (ev'.op \in {"success", "failure", "aborted"} /\ ev'.res # "continued")
          => isLoading'[ev'.c] = FALSE
     /\ \A c \in Controllers :
          {r \in reqs' : r.c = c} = {} => isLoading'[c] = FALSE]_vars

\* C8 happens: the request of a controller failed, onError threw, and no
\* request of that controller is in flight
C8_Witness ==
  /\ ev.op = "failure" /\ ev.res = "rejected"
  /\ InFlight(ev.c) = {}
  /\ ~isLoading[ev.c]

\* C9: the promise of append or reload never rejects, whatever way the request
\* fails.
C9_NoRejection ==
  (ev.op = "failure" /\ ev.origin \in {"append", "reload"}) => ev.res # "rejected"

\* C10: once a controller has started a newer request, no streamed update and
\* no rollback of an older request of it changes the message list.
C10_NoClobber ==
  [][(ev'.op \in {"onUpdate", "failure"} /\ issued[ev'.c] > ev'.n) =>
       Messages(chatCache', ev'.c) = Observed(ev'.c)]_vars

\* C11: in every state in which a request of the controller is in flight, stop()
\* signals abort to it and leaves the handle cleared: after stop() no request of
\* the controller is in flight without the abort signal.
C11_StopAbortsInFlight ==
  [][(ev'.op = "stop" /\ InFlight(ev'.c) # {}) =>
       /\ abortController'[ev'.c] = NoHandle
       /\ \A r \in reqs' : r.c = ev'.c => r.aborted]_vars

\* C12: stop() called when no request of the controller is in flight does not
\* throw and leaves the whole session state as it is: message list, cache
\* entry, error, isLoading, streamData and the cancellation handle; so does
\* every further stop().
C12_StopIdempotent ==
  [][(ev'.op = "stop" /\ InFlight(ev'.c) = {}) =>
       /\ ev'.res = "returned"
       /\ UNCHANGED <<chatCache, messagesRef, error, isLoading, streamData, reqs, issued>>
       /\ abortController' = abortController]_vars

\* C12, amended: stop() called when no request of the controller is in flight
\* does not throw and leaves message list, cache entry, error, isLoading and
\* streamData as they are; the cancellation handle is null after it, also when
\* a failed request had left its controller in it.
C12_StopIdempotentButHandle ==
  [][(ev'.op = "stop" /\ InFlight(ev'.c) = {}) =>
       /\ ev'.res = "returned"
       /\ UNCHANGED <<chatCache, messagesRef, error, isLoading, streamData, reqs, issued>>
       /\ abortController'[ev'.c] = NoHandle
       /\ \A c \in Controllers \ {ev'.c} : abortController'[c] = abortController[c]]_vars

\* C12 happens: stop() ran after a request had failed and left its controller
\* in the handle; nothing is in flight and the error of the failure is still set
C12_Witness ==
  /\ ev.op = "stop"
  /\ ev.n # NoHandle
  /\ InFlight(ev.c) = {}
  /\ error[ev.c] = "Error"
  /\ abortController[ev.c] = NoHandle

C14_AtMostOneInFlight ==
  \A c \in Controllers :
    LET running == {r \in InFlight(c) : ~r.aborted} IN
    /\ Cardinality(running) <= 1
    /\ \A r \in running : abortController[c] = r.n

C16_OnlySuccessContinues ==
  [][ev'.op \in {"aborted", "failure"} =>
       /\ ev'.res # "continued"
       /\ issued' = issued
       /\ reqs' \subseteq reqs]_vars

\* C17: addToolResult with a toolCallId that matches no invocation of the last
\* message (the list may be empty, the last message may have all its results
\* already) does not throw, starts no request and leaves the message list as
\* it is.
C17_UnmatchedIsNoOp ==
  [][ev'.op = "addToolResult" =>
       LET before == Observed(ev'.c)
           unmatched == \/ Len(before) = 0
                        \/ ev'.toolCallId \notin ToolCallIds(<<Last(before)>>)
       IN unmatched =>
            /\ ev'.res = "returned"
            /\ reqs' = reqs
            /\ issued' = issued
            /\ Messages(chatCache', ev'.c) = before]_vars

\* C18: in every reachable state isLoading of a controller is true if and
\* only if at least one request of that controller is in flight.
C18_LoadingIffInFlight ==
  \A c \in Controllers : isLoading[c] <=> (InFlight(c) # {})

\* s is a prefix of t
IsPrefix(s, t) == Len(s) <= Len(t) /\ SubSeq(t, 1, Len(s)) = s

\* every operation called so far has started a request that is still in
\* flight: setData has not been called
NoSetDataSoFar == ops = Cardinality({r \in reqs : ~r.auto})

\* C19: as long as setData is not called, every value of streamData extends
\* the value before it: the earlier items stay, in order, as a prefix; also
\* when requests of the controller overlap.
C19_DataAccumulates ==
  [][NoSetDataSoFar' =>
       \A c \in Controllers : IsPrefix(streamData[c].items, streamData'[c].items)]_vars

\* C20: between handlers, the mirror messagesRef of every controller equals
\* the list the controller observes: the cache entry of its key, or its
\* initial messages when the key has no entry; also after writes of another
\* controller that shares the key.
C20_MirrorConsistent ==
  \A c \in Controllers : messagesRef[c] = Messages(chatCache, c)

\* C20 happens: a request of the second controller has streamed an update, and
\* the mirror of the first controller holds the list with that update, which
\* is not its initial list
C20_Witness ==
  /\ ev.op = "onUpdate" /\ ev.c = 2
  /\ messagesRef[1] = Observed(2)
  /\ messagesRef[1] # initialMessages[1]
  /\ Last(messagesRef[1]).role = "assistant"

====
